---- MODULE Spec2Model ----
(***************************************************************************)
(* Model of the main process of solana-workbench (src/src/main/main.ts):   *)
(* the store initialisation run at module load, the keypair store, the     *)
(* cluster probe, the airdrop operation, the validator supervisor and the  *)
(* ipcMain command handlers.                                               *)
(*                                                                         *)
(* Node runs the handlers on one event loop: a handler runs without        *)
(* interruption up to its next await on an external operation (readdir,    *)
(* exec, an RPC call), so every action below is one such run, and the      *)
(* handlers of different requests interleave at those awaits only.         *)
(***************************************************************************)
EXTENDS Integers, Sequences, FiniteSets, TLC

VARIABLES
    booted,      \* the module-level code of main.ts (lines 27-33) has run
    rootExists,  \* WORKBENCH_DIR_PATH exists on disk
    keysExists,  \* KEYPAIR_DIR_PATH exists on disk
    keysDir,     \* entries of KEYPAIR_DIR_PATH: file name -> entry
    generated,   \* seeds web3.Keypair.generate() has drawn so far
    dockerLog,   \* lines the validator container has written to stderr
    req          \* the ipc requests: request id -> handler state

vars == <<booted, rootExists, keysExists, keysDir, generated, dockerLog, req>>

----------------------------------------------------------------------------
(* Bounds of the model *)

\* number of ipc requests in one behaviour
MaxRequests == 3
\* longest validator log of the log specification
MaxLogLines == 56
\* longest validator log of the dispatcher specification
MaxDispatchLogLines == 2

(* Program constants *)
MAX_TAIL_LINES == 10000
MAX_DISPLAY_LINES == 30
LAMPORTS_PER_SOL == 1000000000

Requests == 1..MaxRequests

Commands == {"init", "run-validator", "validator-logs", "keypairs",
             "add-keypair", "airdrop", "fetch-anchor-idl"}

----------------------------------------------------------------------------
(* Keypairs and the files of the keys directory *)

\* seeds a keypair can be made of: one for a key stored before the program
\* starts, one per request for web3.Keypair.generate()
Seeds == 1..(MaxRequests + 1)

\* kp.publicKey.toString(): the base58 text of the public key derived from
\* the seed
PublicKeyOf(seed) == "Pk" \o ToString(seed)

\* kp.secretKey: the 64 bytes, the seed followed by the public key
SecretKeyOf(seed) == <<seed, PublicKeyOf(seed)>>

\* contents that are no secret key (wrong length)
Garbage == <<>>

FileEntry(data) == [kind |-> "file", data |-> data]
DirEntry == [kind |-> "dir", data |-> <<>>]

Threw(err) == [threw |-> TRUE, err |-> err, value |-> <<>>]
Returned(v) == [threw |-> FALSE, err |-> "", value |-> v]

\* web3.Keypair.fromSecretKey(data): throws unless data is a seed followed
\* by the public key derived from it
fromSecretKey(data) ==
    IF Len(data) = 2 /\ data[2] = PublicKeyOf(data[1])
    THEN Returned([publicKey |-> data[2], secretKey |-> data])
    ELSE Threw("bad secret key")

\* fs.readFileSync(path.join(KEYPAIR_DIR_PATH, name))
readFileSync(exists, dir, name) ==
    IF ~exists \/ name \notin DOMAIN dir THEN Threw("ENOENT")
    ELSE IF dir[name].kind = "dir" THEN Threw("EISDIR")
    ELSE Returned(dir[name].data)

\* a write that has not reached the disk when the call returns
writeFileSync_NotYet(dir, name, data) == dir

\* fs.writeFileSync(path.join(KEYPAIR_DIR_PATH, name), data): the directory
\* after the write (the caller checks that the directory exists)
writeFileSync(dir, name, data) ==
    [n \in DOMAIN dir \cup {name} |->
        IF n = name THEN FileEntry(data) ELSE dir[n]]

RECURSIVE SetToSeq(_)
\* the order fs.promises.readdir lists a set of names in: one fixed order
SetToSeq(S) ==
    IF S = {} THEN <<>>
    ELSE LET x == CHOOSE y \in S : TRUE IN <<x>> \o SetToSeq(S \ {x})

Range(s) == {s[i] : i \in DOMAIN s}

RECURSIVE SelectSeqBy(_, _)
\* Array.prototype.filter with the predicate's results given as a sequence
\* of booleans
SelectSeqBy(s, keep) ==
    IF s = <<>> THEN <<>>
    ELSE (IF keep[1] THEN <<s[1]>> ELSE <<>>)
         \o SelectSeqBy(Tail(s), Tail(keep))

----------------------------------------------------------------------------
(* Keypair store: localKeypair, keypairs, addKeypair *)

\* localKeypair rebuilding the keypair with Keypair.fromSeed, which takes
\* 32 bytes and throws on the 64 of a secret key
localKeypair_FromSeed(exists, dir, pubKey) ==
    LET data == readFileSync(exists, dir, pubKey)
    IN  IF data.threw THEN data ELSE Threw("bad seed size")

\* localKeypair(pubKey): reads the file named pubKey and rebuilds the keypair
localKeypair(exists, dir, pubKey) ==
    LET data == readFileSync(exists, dir, pubKey)
    IN  IF data.threw THEN data ELSE fromSecretKey(data.value)

\* fs.promises.readdir(KEYPAIR_DIR_PATH): the names in the directory
readdir(exists, dir) ==
    IF ~exists THEN Threw("ENOENT") ELSE Returned(SetToSeq(DOMAIN dir))

\* the callback given to .filter in keypairs(): an async function, so what it
\* returns is a promise (of stat.isFile()), not the boolean
isFileCallback(dir, name) ==
    [promise |-> TRUE, resolvesTo |-> dir[name].kind = "file"]

\* how Array.prototype.filter reads a callback's result: any object, a
\* promise included, counts as true
ToBoolean(v) == IF v.promise THEN TRUE ELSE v.resolvesTo

\* the callback given to the second .map in keypairs(): one promise per path
loadCallback(dir, name) ==
    LET data == readFileSync(TRUE, dir, name)
    IN  IF data.threw THEN data ELSE fromSecretKey(data.value)

\* the loads gathered the way Promise.allSettled plus a filter would: what
\* was rejected is left out
PromiseAll_SkipRejected(ps) ==
    LET ok == SelectSeq(ps, LAMBDA p : ~p.threw)
    IN  Returned([i \in DOMAIN ok |-> ok[i].value])

\* Promise.all: rejects with the first rejection, else the values in order
PromiseAll(ps) ==
    IF \E i \in DOMAIN ps : ps[i].threw
    THEN ps[CHOOSE i \in DOMAIN ps :
                ps[i].threw /\ \A j \in DOMAIN ps : ps[j].threw => i <= j]
    ELSE Returned([i \in DOMAIN ps |-> ps[i].value])

\* keypairs() from the point where readdir has returned keypairFiles: the
\* filter, the loads, Promise.all and the public keys as text
keypairsOf(dir, keypairFiles) ==
    LET kept == SelectSeqBy(keypairFiles,
                    [i \in DOMAIN keypairFiles |->
                        ToBoolean(isFileCallback(dir, keypairFiles[i]))])
        web3Keys == PromiseAll([i \in DOMAIN kept |-> loadCallback(dir, kept[i])])
    IN  IF web3Keys.threw THEN web3Keys
        ELSE Returned([i \in DOMAIN web3Keys.value |->
                          web3Keys.value[i].publicKey])

\* every keypair written to one file name
kpPath_Fixed(kp) == "id.json"

\* kpPath in addKeypair(): the file is named by the public key
kpPath(kp) == kp.publicKey

\* web3.Keypair.generate(): a keypair of a seed not drawn before
generate(seed) == fromSecretKey(SecretKeyOf(seed)).value

FreshSeeds(dir, drawn) ==
    {s \in Seeds : s \notin drawn
                   /\ \A n \in DOMAIN dir : dir[n].data # SecretKeyOf(s)
                   /\ PublicKeyOf(s) \notin DOMAIN dir}

----------------------------------------------------------------------------
(* Cluster probe: connectSOL *)

\* outcomes of connection.getEpochInfo()
ProbeOutcomes == {"ok", "refused", "malformed"}

\* connectSOL without its catch: a failed probe is thrown to the caller
connectSOL_NoCatch(outcome) ==
    IF outcome = "ok"
    THEN [threw |-> FALSE, err |-> "", logged |-> FALSE,
          value |-> [running |-> TRUE, keyId |-> ""]]
    ELSE [threw |-> TRUE, err |-> outcome, logged |-> FALSE,
          value |-> [running |-> FALSE, keyId |-> ""]]

\* connectSOL remembering that an earlier probe found the cluster running
connectSOL_Cached(outcome) ==
    IF \/ outcome = "ok"
       \/ \E q \in DOMAIN req :
              /\ req[q].cmd = "init" /\ req[q].pc = "done"
              /\ req[q].replies[1].payload.running
    THEN [threw |-> FALSE, err |-> "", logged |-> FALSE,
          value |-> [running |-> TRUE, keyId |-> ""]]
    ELSE [threw |-> FALSE, err |-> "", logged |-> TRUE,
          value |-> [running |-> FALSE, keyId |-> ""]]

\* connectSOL() once getEpochInfo has settled: every failure is caught and
\* logged, and the state is returned
connectSOL(outcome) ==
    IF outcome = "ok"
    THEN [threw |-> FALSE, err |-> "", logged |-> FALSE,
          value |-> [running |-> TRUE, keyId |-> ""]]
    ELSE [threw |-> FALSE, err |-> "", logged |-> TRUE,
          value |-> [running |-> FALSE, keyId |-> ""]]

----------------------------------------------------------------------------
(* Validator supervisor: validatorLogs *)

\* a log line is one token carrying its position in the log and the words
\* it contains; NL is the newline character
NL == [seq |-> 0, words |-> {}]
LogLine(i, words) == [seq |-> i, words |-> words]

\* `docker logs --tail MAX_TAIL_LINES`: the last lines of the log
TailLines(log) ==
    IF Len(log) <= MAX_TAIL_LINES THEN log
    ELSE SubSeq(log, Len(log) - MAX_TAIL_LINES + 1, Len(log))

\* the text of a sequence of lines, each ended by a newline
Terminated(lines) ==
    [i \in 1..(2 * Len(lines)) |-> IF i % 2 = 1 THEN lines[(i + 1) \div 2] ELSE NL]

\* what exec hands back as stderr
stderrOf(log) == Terminated(TailLines(log))

\* the positions of the newlines of a text
NewlinesOf(text) == {i \in DOMAIN text : text[i] = NL}

\* the position of the k-th newline of a text
NewlineAt(text, k) ==
    CHOOSE i \in NewlinesOf(text) :
        Cardinality({j \in NewlinesOf(text) : j <= i}) = k

\* String.prototype.split('\n'): one piece more than there are newlines,
\* the k-th from after newline k-1 to before newline k; a text without
\* newline is one piece, the empty text included
split(text) ==
    LET n == Cardinality(NewlinesOf(text))
    IN  [k \in 1..(n + 1) |->
            SubSeq(text,
                   IF k = 1 THEN 1 ELSE NewlineAt(text, k - 1) + 1,
                   IF k = n + 1 THEN Len(text) ELSE NewlineAt(text, k) - 1)]

RECURSIVE join(_)
\* Array.prototype.join('\n')
join(pieces) ==
    IF pieces = <<>> THEN <<>>
    ELSE IF Len(pieces) = 1 THEN pieces[1]
    ELSE pieces[1] \o <<NL>> \o join(Tail(pieces))

\* s.match(filter) as a truth value: the filter is a word, found anywhere in
\* the piece; the empty filter matches every piece
match(s, filter) == filter = "" \/ \E i \in DOMAIN s : filter \in s[i].words

Max(a, b) == IF a >= b THEN a ELSE b

\* Array.prototype.slice(start) for start >= 0
slice(s, start) == IF start >= Len(s) THEN <<>> ELSE SubSeq(s, start + 1, Len(s))

\* a slice start that keeps one line too many
sliceStart_OneMore(n) == Max(n - MAX_DISPLAY_LINES - 1, 1)

\* the slice start of validatorLogs
sliceStart(n) == Max(n - MAX_DISPLAY_LINES, 1)

\* validatorLogs(filter) once exec has returned stderr
validatorLogs(stderr, filter) ==
    LET lines == SelectSeq(split(stderr), LAMBDA s : match(s, filter))
    IN  join(slice(lines, sliceStart(Len(lines))))

\* the validator log of n lines in which line i contains the given words
MakeLog(n, wordsOf(_)) == [i \in 1..n |-> LogLine(i, wordsOf(i))]

\* shapes of log: every line an error; none; every eleventh (5 of 55);
\* every second; two of three, with a second word on every line
LogShapes == {"all", "none", "eleventh", "second", "third"}

WordsOfShape(shape, i) ==
    CASE shape = "all" -> {"ERROR"}
      [] shape = "none" -> {"INFO"}
      [] shape = "eleventh" -> IF i % 11 = 0 THEN {"ERROR"} ELSE {"INFO"}
      [] shape = "second" -> IF i % 2 = 0 THEN {"ERROR"} ELSE {"INFO"}
      [] OTHER -> IF i % 3 = 0 THEN {"WARN"} ELSE {"ERROR", "WARN"}

LogOfShape(n, shape) == MakeLog(n, LAMBDA i : WordsOfShape(shape, i))

Filters == {"ERROR", "WARN", ""}

----------------------------------------------------------------------------
(* fetch-anchor-idl: the output of `anchor idl fetch` and JSON.parse *)

IdlText == "{\"version\":\"0.0.0\",\"name\":\"basic\"}"
IdlOutputs == {IdlText, "Error: Account not found", ""}

JSONparse(stdout) ==
    IF stdout = IdlText
    THEN Returned([version |-> "0.0.0", name |-> "basic"])
    ELSE Threw("SyntaxError")

----------------------------------------------------------------------------
(* The ipc requests *)

NoArg == [pubKey |-> "", solAmount |-> 0, filter |-> "", programID |-> ""]

NoKeypair == [publicKey |-> "", secretKey |-> <<>>]

\* a request not yet sent by the renderer
Unsent ==
    [cmd |-> "none", pc |-> "idle", arg |-> NoArg,
     kp |-> NoKeypair,     \* addKeypair: the generated keypair
     files |-> <<>>,       \* keypairs: what readdir returned
     replies |-> <<>>,     \* event.reply calls made, in order
     net |-> <<>>,         \* calls sent to the RPC endpoint, in order
     outcomes |-> <<>>,    \* how the awaited external calls ended, in order
     console |-> <<>>,     \* console.log calls, in order
     launch |-> "none",    \* runValidator: state of the docker run
     err |-> "",           \* what the handler's promise was rejected with
     noFile |-> FALSE,     \* airdrop: the keys directory had no file pubKey
     after |-> {}]         \* requests already ended when this one arrived

Reply(channel, payload) == [channel |-> channel, payload |-> payload]
NetCall(op, to, lamports) == [op |-> op, to |-> to, lamports |-> lamports]

\* the handler's promise resolved / was rejected: nothing runs after either
Ended(r) == req[r].pc \in {"done", "rejected"}

\* ipcMain delivers requests in the order the renderer sent them
CanReceive(r) ==
    /\ booted
    /\ req[r].cmd = "none"
    /\ \A q \in Requests : q < r => req[q].cmd # "none"

Received(r, cmd, arg) ==
    [req[r] EXCEPT !.cmd = cmd, !.arg = arg,
                   !.after = {q \in Requests : Ended(q)}]

Rejected(rec, err) == [rec EXCEPT !.pc = "rejected", !.err = err]

Unchanged_fs == UNCHANGED <<booted, rootExists, keysExists, keysDir, generated, dockerLog>>

----------------------------------------------------------------------------
(* Store initialisation: main.ts lines 27-33, run once when the module loads *)

\* if (!fs.existsSync(WORKBENCH_DIR_PATH)) { mkdirSync(root); mkdirSync(keys) }
ensureDirs(root, keys) ==
    IF ~root THEN [root |-> TRUE, keys |-> TRUE]
    ELSE [root |-> root, keys |-> keys]

Boot ==
    /\ ~booted
    /\ booted' = TRUE
    /\ rootExists' = ensureDirs(rootExists, keysExists).root
    /\ keysExists' = ensureDirs(rootExists, keysExists).keys
    /\ UNCHANGED <<keysDir, generated, dockerLog, req>>

----------------------------------------------------------------------------
(* ipcMain.on('init') *)

\* the handler runs connectSOL() up to `await connection.getEpochInfo()`
ReceiveInit(r) ==
    /\ CanReceive(r)
    /\ req' = [req EXCEPT ![r] =
                 [Received(r, "init", NoArg) EXCEPT
                    !.pc = "getEpochInfo",
                    !.net = Append(@, NetCall("getEpochInfo", "", 0))]]
    /\ Unchanged_fs

\* getEpochInfo settles; connectSOL returns and the handler replies
InitProbed(r) ==
    /\ req[r].cmd = "init" /\ req[r].pc = "getEpochInfo"
    /\ \E outcome \in ProbeOutcomes :
         LET solState == connectSOL(outcome)
             seen == [req[r] EXCEPT
                        !.outcomes = Append(@, outcome),
                        !.console = IF solState.logged
                                    THEN Append(@, "COULD NOT CONNECT") ELSE @]
         IN  req' = [req EXCEPT ![r] =
                       IF solState.threw THEN Rejected(seen, solState.err)
                       ELSE [seen EXCEPT
                               !.pc = "done",
                               !.replies = Append(@, Reply("init", solState.value))]]
    /\ Unchanged_fs

\* the endpoint has accepted the connection and never answers the call:
\* connectSOL sets no timeout, so the await of getEpochInfo has nothing
\* left that could end it
ProbeHangs(r) ==
    /\ req[r].cmd = "init" /\ req[r].pc = "getEpochInfo"
    /\ req' = [req EXCEPT ![r] =
                 [@ EXCEPT !.pc = "getEpochInfo unanswered",
                           !.outcomes = Append(@, "no response")]]
    /\ Unchanged_fs

----------------------------------------------------------------------------
(* ipcMain.on('run-validator') and runValidator *)

\* a handler that starts `docker run` and waits for it before it replies
RunValidator_Awaits(r) ==
    /\ CanReceive(r)
    /\ req' = [req EXCEPT ![r] =
                 [Received(r, "run-validator", NoArg) EXCEPT
                    !.pc = "docker run",
                    !.launch = "started"]]
    /\ Unchanged_fs

\* runValidator() starts `docker run` and returns; the handler replies
RunValidator(r) ==
    /\ CanReceive(r)
    /\ req' = [req EXCEPT ![r] =
                 [Received(r, "run-validator", NoArg) EXCEPT
                    !.pc = "done",
                    !.launch = "started",
                    !.replies = Append(@, Reply("run-validator", "{}"))]]
    /\ Unchanged_fs

\* the callback of exec: console.log(err), err being null after a launch
\* that worked
LaunchSettled(r) ==
    /\ req[r].launch = "started"
    /\ \E err \in {"null", "name already in use"} :
         req' = [req EXCEPT ![r] =
                   [@ EXCEPT !.launch = IF err = "null" THEN "launched" ELSE "failed",
                             !.console = Append(@, err)]]
    /\ Unchanged_fs

----------------------------------------------------------------------------
(* ipcMain.on('validator-logs') *)

\* the handler runs validatorLogs(msg.filter) up to the await of exec
ReceiveValidatorLogs(r) ==
    /\ CanReceive(r)
    /\ \E filter \in Filters :
         req' = [req EXCEPT ![r] =
                   [Received(r, "validator-logs", [NoArg EXCEPT !.filter = filter])
                      EXCEPT !.pc = "docker logs"]]
    /\ Unchanged_fs

\* exec settles: a failure rejects validatorLogs and with it the handler
ValidatorLogsFetched(r) ==
    /\ req[r].cmd = "validator-logs" /\ req[r].pc = "docker logs"
    /\ \E outcome \in {"ok", "exec failed"} :
         LET seen == [req[r] EXCEPT !.outcomes = Append(@, outcome)]
         IN  req' = [req EXCEPT ![r] =
                       IF outcome # "ok" THEN Rejected(seen, outcome)
                       ELSE [seen EXCEPT
                               !.pc = "done",
                               !.replies = Append(@,
                                   Reply("validator-logs",
                                         validatorLogs(stderrOf(dockerLog),
                                                       req[r].arg.filter)))]]
    /\ Unchanged_fs

----------------------------------------------------------------------------
(* ipcMain.on('keypairs'), ipcMain.on('add-keypair'), keypairs, addKeypair *)

\* the handler calls keypairs(), which runs up to the await of readdir
ReceiveKeypairs(r) ==
    /\ CanReceive(r)
    /\ req' = [req EXCEPT ![r] =
                 [Received(r, "keypairs", NoArg) EXCEPT !.pc = "readdir"]]
    /\ Unchanged_fs

\* the handler calls addKeypair(): generate, writeFileSync (which throws when
\* the directory is missing), then keypairs() up to the await of readdir
ReceiveAddKeypair(r) ==
    /\ CanReceive(r)
    /\ \E seed \in FreshSeeds(keysDir, generated) :
         LET kp == generate(seed)
             got == [Received(r, "add-keypair", NoArg) EXCEPT !.kp = kp]
         IN  /\ generated' = generated \cup {seed}
             /\ IF keysExists
                THEN /\ keysDir' = writeFileSync(keysDir, kpPath(kp), kp.secretKey)
                     /\ req' = [req EXCEPT ![r] =
                                  [got EXCEPT !.pc = "addKeypair readdir"]]
                ELSE /\ keysDir' = keysDir
                     /\ req' = [req EXCEPT ![r] = Rejected(got, "ENOENT")]
    /\ UNCHANGED <<booted, rootExists, keysExists, dockerLog>>

\* readdir reads the directory: of keypairs() called by a handler (pc
\* "readdir") or by addKeypair() (pc "addKeypair readdir")
ReaddirDone(r) ==
    /\ req[r].pc \in {"readdir", "addKeypair readdir"}
    /\ LET keypairFiles == readdir(keysExists, keysDir)
       IN  req' = [req EXCEPT ![r] =
                     IF keypairFiles.threw THEN Rejected(@, keypairFiles.err)
                     ELSE [@ EXCEPT
                             !.files = keypairFiles.value,
                             !.pc = IF @ = "readdir" THEN "loading"
                                    ELSE "addKeypair loading"]]
    /\ Unchanged_fs

\* keypairs() called by addKeypair() resumes with the names and returns;
\* addKeypair returns and the handler calls keypairs() a second time
AddKeypairListed(r) ==
    /\ req[r].pc = "addKeypair loading"
    /\ LET allKeypairs == keypairsOf(keysDir, req[r].files)
       IN  req' = [req EXCEPT ![r] =
                     IF allKeypairs.threw THEN Rejected(@, allKeypairs.err)
                     ELSE [@ EXCEPT !.pc = "readdir", !.files = <<>>]]
    /\ Unchanged_fs

\* keypairs() called by the keypairs or the add-keypair handler resumes with
\* the names and returns; the handler replies on the channel of its command
KeypairsListed(r) ==
    /\ req[r].pc = "loading"
    /\ LET pairs == keypairsOf(keysDir, req[r].files)
       IN  req' = [req EXCEPT ![r] =
                     IF pairs.threw THEN Rejected(@, pairs.err)
                     ELSE [@ EXCEPT
                             !.pc = "done",
                             !.replies = Append(@, Reply(req[r].cmd, pairs.value))]]
    /\ Unchanged_fs

----------------------------------------------------------------------------
(* ipcMain.on('airdrop') and airdropTokens *)

\* names an airdrop request can carry
AirdropTargets == {PublicKeyOf(1), PublicKeyOf(2), "backup"}
SolAmounts == {1, 2}

RpcOutcomes == {"ok", "rpc error"}

\* airdropTokens asking for the credit by the name it was given, before the
\* keypair is loaded
airdropTokens_RequestFirst(exists, dir, pubKey, sol) ==
    Returned(<<NetCall("requestAirdrop", pubKey, LAMPORTS_PER_SOL * sol)>>)

\* airdropTokens refusing a request whose key and amount were already asked
\* for
airdropTokens_Dedup(exists, dir, pubKey, sol) ==
    LET to == localKeypair(exists, dir, pubKey)
    IN  IF to.threw THEN to
        ELSE IF \E q \in DOMAIN req :
                    /\ req[q].cmd = "airdrop" /\ req[q].net # <<>>
                    /\ req[q].arg.pubKey = pubKey /\ req[q].arg.solAmount = sol
        THEN Threw("duplicate")
        ELSE Returned(<<NetCall("requestAirdrop", to.value.publicKey,
                                LAMPORTS_PER_SOL * sol)>>)

\* airdropTokens up to its first await on the network: the connection object
\* is made (no call is sent), the keypair is loaded, and requestAirdrop is
\* sent unless the load threw
airdropTokens(exists, dir, pubKey, sol) ==
    LET to == localKeypair(exists, dir, pubKey)
    IN  IF to.threw THEN to
        ELSE Returned(<<NetCall("requestAirdrop", to.value.publicKey,
                                LAMPORTS_PER_SOL * sol)>>)

ReceiveAirdrop(r) ==
    /\ CanReceive(r)
    /\ \E pubKey \in AirdropTargets, sol \in SolAmounts :
         LET got == [Received(r, "airdrop",
                              [NoArg EXCEPT !.pubKey = pubKey, !.solAmount = sol])
                       EXCEPT !.noFile = ~keysExists \/ pubKey \notin DOMAIN keysDir]
             sent == airdropTokens(keysExists, keysDir, pubKey, sol)
         IN  req' = [req EXCEPT ![r] =
                       IF sent.threw THEN Rejected(got, sent.err)
                       ELSE [got EXCEPT !.pc = "requestAirdrop",
                                        !.net = @ \o sent.value]]
    /\ Unchanged_fs

\* requestAirdrop settles: on success confirmTransaction is sent
AirdropRequested(r) ==
    /\ req[r].pc = "requestAirdrop"
    /\ \E outcome \in RpcOutcomes :
         LET seen == [req[r] EXCEPT !.outcomes = Append(@, outcome)]
         IN  req' = [req EXCEPT ![r] =
                       IF outcome # "ok" THEN Rejected(seen, outcome)
                       ELSE [seen EXCEPT
                               !.pc = "confirmTransaction",
                               !.net = Append(@, NetCall("confirmTransaction",
                                                         req[r].net[1].to, 0))]]
    /\ Unchanged_fs

\* an airdrop handler that replies whatever confirmTransaction gave
airdropSettled_AlwaysReplies(rec, outcome) ==
    [rec EXCEPT !.pc = "done",
                !.replies = Append(@, Reply("airdrop success", "undefined"))]

\* what the airdrop handler does once confirmTransaction has settled
airdropSettled(rec, outcome) ==
    IF outcome # "ok" THEN Rejected(rec, outcome)
    ELSE [rec EXCEPT !.pc = "done",
                     !.replies = Append(@, Reply("airdrop success", "undefined"))]

\* confirmTransaction settles: airdropTokens returns and the handler replies
AirdropConfirmed(r) ==
    /\ req[r].pc = "confirmTransaction"
    /\ \E outcome \in RpcOutcomes :
         req' = [req EXCEPT ![r] =
                   airdropSettled([req[r] EXCEPT !.outcomes = Append(@, outcome)],
                                  outcome)]
    /\ Unchanged_fs

----------------------------------------------------------------------------
(* ipcMain.on('fetch-anchor-idl') *)

ProgramIDs == {"Prog1"}

ReceiveFetchIdl(r) ==
    /\ CanReceive(r)
    /\ \E programID \in ProgramIDs :
         req' = [req EXCEPT ![r] =
                   [Received(r, "fetch-anchor-idl",
                             [NoArg EXCEPT !.programID = programID])
                      EXCEPT !.pc = "anchor idl fetch"]]
    /\ Unchanged_fs

\* exec settles: a failure rejects the handler, and so does output that
\* JSON.parse cannot read
IdlFetched(r) ==
    /\ req[r].pc = "anchor idl fetch"
    /\ \E outcome \in {"ok", "exec failed"}, stdout \in IdlOutputs :
         LET seen == [req[r] EXCEPT !.outcomes = Append(@, outcome)]
             idl == JSONparse(stdout)
         IN  req' = [req EXCEPT ![r] =
                       IF outcome # "ok" THEN Rejected(seen, outcome)
                       ELSE IF idl.threw THEN Rejected(seen, idl.err)
                       ELSE [seen EXCEPT
                               !.pc = "done",
                               !.replies = Append(@, Reply("fetch-anchor-idl",
                                                           idl.value))]]
    /\ Unchanged_fs

----------------------------------------------------------------------------
(* Specifications *)

EmptyDir == [n \in {} |-> DirEntry]

\* what the keys directory can hold when the program starts
InitialDirs ==
    { EmptyDir,
      [n \in {PublicKeyOf(1)} |-> FileEntry(SecretKeyOf(1))],
      [n \in {PublicKeyOf(1), "backup"} |->
          IF n = "backup" THEN DirEntry ELSE FileEntry(SecretKeyOf(1))],
      [n \in {"notes"} |-> FileEntry(Garbage)] }

\* the disk before the program starts: no root; a root without keys; both
InitDisk ==
    \/ /\ rootExists = FALSE /\ keysExists = FALSE /\ keysDir = EmptyDir
    \/ /\ rootExists = TRUE /\ keysExists = FALSE /\ keysDir = EmptyDir
    \/ /\ rootExists = TRUE /\ keysExists = TRUE /\ keysDir \in InitialDirs

Init ==
    /\ booted = FALSE
    /\ InitDisk
    /\ generated = {}
    /\ dockerLog = LogOfShape(MaxDispatchLogLines, "second")
    /\ req = [r \in Requests |-> Unsent]

Next ==
    \/ Boot
    \/ \E r \in Requests :
         \/ ReceiveInit(r) \/ InitProbed(r) \/ ProbeHangs(r)
         \/ RunValidator(r) \/ LaunchSettled(r)
         \/ ReceiveValidatorLogs(r) \/ ValidatorLogsFetched(r)
         \/ ReceiveKeypairs(r) \/ ReceiveAddKeypair(r)
         \/ ReaddirDone(r) \/ AddKeypairListed(r) \/ KeypairsListed(r)
         \/ ReceiveAirdrop(r) \/ AirdropRequested(r) \/ AirdropConfirmed(r)
         \/ ReceiveFetchIdl(r) \/ IdlFetched(r)

Spec == Init /\ [][Next]_vars

\* the validator-logs command alone, over logs of every length and shape
InitLogs ==
    /\ booted = TRUE
    /\ rootExists = TRUE /\ keysExists = TRUE /\ keysDir = EmptyDir
    /\ generated = {}
    /\ dockerLog \in {LogOfShape(n, shape) : n \in 0..MaxLogLines, shape \in LogShapes}
    /\ req = [r \in Requests |-> Unsent]

NextLogs == ReceiveValidatorLogs(1) \/ ValidatorLogsFetched(1)

SpecLogs == InitLogs /\ [][NextLogs]_vars

----------------------------------------------------------------------------
(* Properties of validatorLogs *)

\* the lines of a text: none for the empty text, else its pieces
LinesOf(text) == IF text = <<>> THEN <<>> ELSE split(text)

\* the lines of the validator log that match a filter, oldest first
MatchingLogLines(filter) ==
    SelectSeq([i \in DOMAIN dockerLog |-> <<dockerLog[i]>>],
              LAMBDA s : match(s, filter))

LastOf(s, k) == IF Len(s) <= k THEN s ELSE SubSeq(s, Len(s) - k + 1, Len(s))

LogsReplied(r) == req[r].cmd = "validator-logs" /\ req[r].pc = "done"

LogsText(r) == req[r].replies[1].payload

\* C3: the reply of validator-logs holds the last min(30, n) of the n log
\* lines that match the filter, in their order in the log
C3_LastMatchingLines ==
    \A r \in Requests :
        LogsReplied(r) =>
            LinesOf(LogsText(r))
                = LastOf(MatchingLogLines(req[r].arg.filter), MAX_DISPLAY_LINES)

\* C4: the text replied by validator-logs has at most 30 lines, and each of
\* them matches the filter of the request
C4_AtMostThirtyMatching ==
    \A r \in Requests :
        LogsReplied(r) =>
            /\ Len(LinesOf(LogsText(r))) <= MAX_DISPLAY_LINES
            /\ \A i \in DOMAIN LinesOf(LogsText(r)) :
                   match(LinesOf(LogsText(r))[i], req[r].arg.filter)

\* a reply of exactly 30 lines, cut from a log with more matching lines and
\* with lines that do not match
C4_Witness ==
    \E r \in Requests :
        /\ LogsReplied(r)
        /\ req[r].arg.filter = "ERROR"
        /\ Len(LinesOf(LogsText(r))) = MAX_DISPLAY_LINES
        /\ Len(MatchingLogLines("ERROR")) > MAX_DISPLAY_LINES
        /\ Len(MatchingLogLines("ERROR")) < Len(dockerLog)

----------------------------------------------------------------------------
(* Properties of the dispatcher *)

\* C1: a request whose handler has ended was answered exactly once, whether
\* the handler's work succeeded or failed (stated for a disk on which the
\* keys directory exists, so that no failure counted here comes from the
\* store initialisation)
C1_ExactlyOneReply ==
    keysExists => \A r \in Requests : Ended(r) => Len(req[r].replies) = 1

\* the names readdir returned to request r that are regular files
RegularFilesOf(r) ==
    SelectSeq(req[r].files, LAMBDA n : keysDir[n].kind = "file")

\* C2: a keypairs request that read a directory whose regular files are all
\* secret keys is answered with exactly the public keys of those files;
\* other entries are left out and do not make it fail
C2_ListsRegularFiles ==
    \A r \in Requests :
        ( /\ req[r].cmd = "keypairs"
          /\ Ended(r)
          /\ req[r].err # "ENOENT"
          /\ \A i \in DOMAIN RegularFilesOf(r) :
                 ~fromSecretKey(keysDir[RegularFilesOf(r)[i]].data).threw )
        => /\ req[r].pc = "done"
           /\ req[r].replies[1].payload
                 = [i \in DOMAIN RegularFilesOf(r) |->
                      fromSecretKey(keysDir[RegularFilesOf(r)[i]].data).value.publicKey]

\* C5: an init request is never rejected, and its reply is the state with
\* running true exactly when getEpochInfo succeeded and with an empty keyId
C5_ProbeNeverThrows ==
    \A r \in Requests :
        req[r].cmd = "init" =>
            /\ req[r].pc # "rejected"
            /\ req[r].pc = "done" =>
                   req[r].replies
                      = <<Reply("init", [running |-> req[r].outcomes[1] = "ok",
                                         keyId |-> ""])>>

\* an init request answered after a probe that failed
C5_Witness ==
    \E r \in Requests :
        /\ req[r].cmd = "init" /\ req[r].pc = "done"
        /\ req[r].outcomes[1] # "ok"
        /\ req[r].replies[1].payload.running = FALSE

\* C6: an airdrop for a public key that has no file in the keys directory
\* fails without any call having been sent to the RPC endpoint
C6_NoCallWithoutKeyFile ==
    \A r \in Requests :
        (req[r].cmd = "airdrop" /\ req[r].noFile) =>
            /\ req[r].pc = "rejected"
            /\ req[r].net = <<>>
            /\ req[r].replies = <<>>

\* an airdrop for a missing file, in a keys directory that holds another key
C6_Witness ==
    \E r \in Requests :
        /\ req[r].cmd = "airdrop" /\ req[r].noFile
        /\ keysExists /\ keysDir # EmptyDir
        /\ req[r].err = "ENOENT"

\* C7: the airdrop reply is sent only after requestAirdrop and then
\* confirmTransaction were sent and both succeeded; a request whose load,
\* credit request or confirmation failed has no reply
C7_SuccessOnlyAfterConfirmation ==
    \A r \in Requests :
        req[r].cmd = "airdrop" =>
            /\ req[r].replies # <<>> =>
                   /\ Len(req[r].replies) = 1
                   /\ [i \in DOMAIN req[r].net |-> req[r].net[i].op]
                         = <<"requestAirdrop", "confirmTransaction">>
                   /\ req[r].outcomes = <<"ok", "ok">>
                   /\ ~req[r].noFile
            /\ (req[r].err # "" \/ "rpc error" \in Range(req[r].outcomes)) =>
                   req[r].replies = <<>>

\* an airdrop answered, and one whose confirmation failed
C7_Witness ==
    /\ \E r \in Requests :
         req[r].cmd = "airdrop" /\ req[r].pc = "done" /\ req[r].replies # <<>>
    /\ \E r \in Requests :
         req[r].cmd = "airdrop" /\ req[r].outcomes = <<"ok", "rpc error">>

\* the add-keypair request r has written its file
Wrote(r) ==
    /\ req[r].cmd = "add-keypair"
    /\ req[r].pc \in {"addKeypair readdir", "addKeypair loading",
                      "readdir", "loading", "done"}

\* C8: from the first listing of an add-keypair command on, the file of the
\* generated key is on disk with its secret key; every listing holds its
\* name and the reply holds its public key; and with no other file in the
\* store, a keypairs request sent after the reply is answered with that one
\* public key
C8_ReplyHoldsNewKey ==
    /\ \A r \in Requests :
         Wrote(r) =>
            /\ req[r].kp.publicKey \in DOMAIN keysDir
            /\ keysDir[req[r].kp.publicKey] = FileEntry(req[r].kp.secretKey)
            /\ req[r].pc \in {"addKeypair loading", "loading"} =>
                   req[r].kp.publicKey \in Range(req[r].files)
            /\ req[r].pc = "done" =>
                   /\ Len(req[r].replies) = 1
                   /\ req[r].kp.publicKey \in Range(req[r].replies[1].payload)
    /\ \A r1, r2 \in Requests :
         ( /\ req[r1].cmd = "add-keypair" /\ req[r1].pc = "done"
           /\ req[r2].cmd = "keypairs" /\ req[r2].pc = "done"
           /\ r1 \in req[r2].after
           /\ Cardinality(DOMAIN keysDir) = 1 )
         => req[r2].replies[1].payload = <<req[r1].kp.publicKey>>

\* add-keypair on an empty store, answered, then keypairs, answered
C8_Witness ==
    \E r1, r2 \in Requests :
        /\ req[r1].cmd = "add-keypair" /\ req[r1].pc = "done"
        /\ req[r2].cmd = "keypairs" /\ req[r2].pc = "done"
        /\ r1 \in req[r2].after
        /\ Cardinality(DOMAIN keysDir) = 1

\* C9: two add-keypair commands, however they interleave, leave two files
\* with different names, each with its own secret key, and a keypairs
\* request sent after both replies is answered with both public keys
C9_ConcurrentAddsKeepBoth ==
    \A r1, r2 \in Requests :
        (r1 # r2 /\ Wrote(r1) /\ Wrote(r2)) =>
            /\ req[r1].kp.publicKey # req[r2].kp.publicKey
            /\ \A r \in {r1, r2} :
                   /\ kpPath(req[r].kp) \in DOMAIN keysDir
                   /\ keysDir[kpPath(req[r].kp)] = FileEntry(req[r].kp.secretKey)
            /\ \A r3 \in Requests :
                   ( /\ req[r3].cmd = "keypairs" /\ req[r3].pc = "done"
                     /\ {r1, r2} \subseteq req[r3].after
                     /\ req[r1].pc = "done" /\ req[r2].pc = "done" )
                   => {req[r1].kp.publicKey, req[r2].kp.publicKey}
                         \subseteq Range(req[r3].replies[1].payload)

\* two add-keypair commands in flight together, both answered, then a
\* keypairs request answered
C9_Witness ==
    \E r1, r2, r3 \in Requests :
        /\ r1 # r2
        /\ req[r1].cmd = "add-keypair" /\ req[r1].pc = "done"
        /\ req[r2].cmd = "add-keypair" /\ req[r2].pc = "done"
        /\ r1 \notin req[r2].after /\ r2 \notin req[r1].after
        /\ req[r3].cmd = "keypairs" /\ req[r3].pc = "done"
        /\ {r1, r2} \subseteq req[r3].after
        /\ Len(req[r3].replies[1].payload) >= 2

\* C10: once the module-level code has run, the root directory and its keys
\* subdirectory both exist
C10_BootEnsuresBothDirs == booted => (rootExists /\ keysExists)

\* C11: a run-validator request has its empty reply from the moment the
\* launch is started, before the launch settles; the reply is the same after
\* a launch that worked and after one that failed, and the failure only
\* reaches the console
C11_AcknowledgedAtLaunch ==
    \A r \in Requests :
        req[r].cmd = "run-validator" =>
            /\ req[r].launch \in {"started", "launched", "failed"}
            /\ req[r].pc = "done" /\ req[r].err = ""
            /\ req[r].replies = <<Reply("run-validator", "{}")>>
            /\ req[r].launch = "started" => req[r].console = <<>>
            /\ req[r].launch = "launched" => req[r].console = <<"null">>
            /\ req[r].launch = "failed" =>
                   req[r].console = <<"name already in use">>

\* a request answered while its launch is pending, and one whose launch
\* has failed since
C11_Witness ==
    /\ \E r \in Requests :
         /\ req[r].cmd = "run-validator" /\ req[r].launch = "started"
         /\ req[r].replies # <<>>
    /\ \E r \in Requests :
         /\ req[r].cmd = "run-validator" /\ req[r].launch = "failed"
         /\ req[r].replies # <<>>

\* C12: a validator-logs request whose `docker logs` failed is still
\* answered, with the empty text
C12_FailedFetchRepliesEmpty ==
    \A r \in Requests :
        ( /\ req[r].cmd = "validator-logs"
          /\ req[r].outcomes = <<"exec failed">> )
        => req[r].replies = <<Reply("validator-logs", <<>>)>>

\* the add-keypair request r has written the file of its keypair (the write
\* throws only when the keys directory is missing)
StoredBy(r) == req[r].cmd = "add-keypair" /\ keysExists

\* C13: localKeypair on the public key of a keypair that addKeypair wrote
\* returns that keypair, the secret key as written and the same public key;
\* an airdrop that names it, received after the write, loads it and asks for
\* the credit to that public key
C13_StoredKeypairLoads ==
    \A r1 \in Requests :
        StoredBy(r1) =>
            /\ localKeypair(keysExists, keysDir, req[r1].kp.publicKey)
                  = Returned([publicKey |-> req[r1].kp.publicKey,
                              secretKey |-> req[r1].kp.secretKey])
            /\ \A r2 \in Requests :
                   ( /\ r2 > r1
                     /\ req[r2].cmd = "airdrop"
                     /\ req[r2].arg.pubKey = req[r1].kp.publicKey )
                   => /\ ~req[r2].noFile
                      /\ req[r2].err \notin {"ENOENT", "EISDIR", "bad secret key",
                                             "bad seed size"}
                      /\ req[r2].net # <<>>
                      /\ req[r2].net[1].to = req[r1].kp.publicKey

\* an airdrop to a key that an earlier add-keypair generated and wrote
C13_Witness ==
    \E r1, r2 \in Requests :
        /\ StoredBy(r1) /\ r2 > r1
        /\ req[r2].cmd = "airdrop"
        /\ req[r2].arg.pubKey = req[r1].kp.publicKey
        /\ req[r2].net # <<>>

\* C14: an init request is answered in bounded time, also when the endpoint
\* never answers the status call: as long as the request has no reply, a
\* step of its handler (the call settling, by an answer or by a timeout)
\* can still be taken
C14_UnansweredProbeCanSettle ==
    \A r \in Requests :
        (req[r].cmd = "init" /\ req[r].replies = <<>>) => ENABLED InitProbed(r)

\* the keys directory holds a regular file that is no secret key
HasBadFile ==
    \E n \in DOMAIN keysDir :
        keysDir[n].kind = "file" /\ fromSecretKey(keysDir[n].data).threw

\* C15: with a regular file in the keys directory that is no secret key, no
\* keypairs and no add-keypair request is answered with a list: the listing
\* is rejected with the parse error, in addKeypair already at its own
\* listing
C15_BadFileFailsListing ==
    HasBadFile =>
        \A r \in Requests :
            req[r].cmd \in {"keypairs", "add-keypair"} =>
                /\ req[r].replies = <<>>
                /\ req[r].pc # "done"
                /\ req[r].cmd = "add-keypair" => req[r].pc \notin {"readdir", "loading"}
                /\ Ended(r) => (req[r].pc = "rejected" /\ req[r].err = "bad secret key")

\* a keypairs and an add-keypair request, each rejected over a directory
\* that holds a secret key beside the bad file
C15_Witness ==
    /\ HasBadFile
    /\ \E r \in Requests :
         /\ req[r].cmd = "keypairs" /\ req[r].err = "bad secret key"
         /\ Len(req[r].files) >= 2
    /\ \E r \in Requests :
         /\ req[r].cmd = "add-keypair" /\ req[r].err = "bad secret key"
         /\ Len(req[r].files) >= 2

\* the airdrop request r named a key file that was in the keys directory
\* and holds a secret key
ForStoredKey(r) ==
    /\ req[r].cmd = "airdrop" /\ ~req[r].noFile
    /\ keysDir[req[r].arg.pubKey].kind = "file"
    /\ ~fromSecretKey(keysDir[req[r].arg.pubKey].data).threw

\* the requestAirdrop calls sent so far, each by its request and position
CreditRequests ==
    {<<r, i>> \in Requests \X (1..2) :
        i \in DOMAIN req[r].net /\ req[r].net[i].op = "requestAirdrop"}

\* C16: every airdrop request for a stored keypair sends its own
\* requestAirdrop, for that key and LAMPORTS_PER_SOL times its amount, also
\* when another request asked for the same key and amount; there are as
\* many credit requests as such airdrop requests
C16_NoDeduplication ==
    /\ \A r \in Requests :
         ForStoredKey(r) =>
            /\ req[r].net # <<>>
            /\ req[r].net[1]
                  = NetCall("requestAirdrop",
                            fromSecretKey(keysDir[req[r].arg.pubKey].data).value.publicKey,
                            LAMPORTS_PER_SOL * req[r].arg.solAmount)
    /\ Cardinality(CreditRequests)
          = Cardinality({r \in Requests : ForStoredKey(r)})

\* three airdrops of the same key and amount, the second received while the
\* first is in flight, the third after the second has ended
C16_Witness ==
    \E r1, r2, r3 \in Requests :
        /\ r1 < r2 /\ r2 < r3
        /\ ForStoredKey(r1) /\ ForStoredKey(r2) /\ ForStoredKey(r3)
        /\ req[r1].arg = req[r2].arg /\ req[r2].arg = req[r3].arg
        /\ r1 \notin req[r2].after
        /\ r2 \in req[r3].after
        /\ Cardinality(CreditRequests) = 3

\* the step is the receipt of the add-keypair request r
AddKeypairStep(r) == req[r].cmd = "none" /\ req'[r].cmd = "add-keypair"

\* C17: in every step the key files there were stay, with their contents;
\* the step of an add-keypair command adds exactly one file to the keys
\* directory, named by the public key it generated and holding its secret
\* key; every other step leaves the directory as it was
C17_OnlyAddKeypairAddsOneFile ==
    [][ /\ \A n \in DOMAIN keysDir :
               n \in DOMAIN keysDir' /\ keysDir'[n] = keysDir[n]
        /\ \A r \in Requests :
               AddKeypairStep(r) =>
                   /\ keysExists'
                   /\ req'[r].kp.publicKey \notin DOMAIN keysDir
                   /\ DOMAIN keysDir' = DOMAIN keysDir \cup {req'[r].kp.publicKey}
                   /\ keysDir'[req'[r].kp.publicKey]
                         = FileEntry(req'[r].kp.secretKey)
        /\ (~ \E r \in Requests : AddKeypairStep(r)) => keysDir' = keysDir
      ]_vars

\* C18: every reply is sent on the channel named like the command of its
\* request
C18_ReplyOnCommandChannel ==
    \A r \in Requests :
        \A i \in DOMAIN req[r].replies : req[r].replies[i].channel = req[r].cmd

InitReplied(r) == req[r].cmd = "init" /\ req[r].pc = "done"

RunningReplied(r) == req[r].replies[1].payload.running

\* C19: the running value of an init reply is that of the request's own
\* status call, whatever was probed or handled before or meanwhile: two init
\* replies agree on it exactly when their own calls both succeeded or both
\* failed
C19_ProbeNotCached ==
    \A r1, r2 \in Requests :
        (InitReplied(r1) /\ InitReplied(r2)) =>
            /\ RunningReplied(r1) = (req[r1].outcomes = <<"ok">>)
            /\ (RunningReplied(r1) = RunningReplied(r2))
                  <=> ((req[r1].outcomes = <<"ok">>) = (req[r2].outcomes = <<"ok">>))

\* a probe that succeeded and was answered, then a probe that failed, with
\* another command handled as well
C19_Witness ==
    \E r1, r2, r3 \in Requests :
        /\ InitReplied(r1) /\ req[r1].outcomes = <<"ok">>
        /\ InitReplied(r2) /\ req[r2].outcomes # <<"ok">>
        /\ r1 \in req[r2].after
        /\ RunningReplied(r1) /\ ~RunningReplied(r2)
        /\ req[r3].cmd \notin {"none", "init"}

====
